---- MODULE Spec2Model ----
(***************************************************************************)
(* One invocation of lambda_handler (src/handler.py): recipient            *)
(* resolution, get_rds_metrics_report, CSV rendering, send_report_email.   *)
(*                                                                         *)
(* Units.  Metric averages are byte counts in the code; here they are      *)
(* counted in MiB (2^20 bytes), so that dividing by 1024*1024*1024 bytes   *)
(* is dividing by MiBPerGB.  A value the code rounds to two decimals is    *)
(* held as its number of hundredths (12.34 is 1234).  Allocated storage is *)
(* the integer number of GB the inventory reports.  A text string that the *)
(* code splits or joins is a sequence of one-character strings.            *)
(***************************************************************************)
EXTENDS Integers, Sequences, FiniteSets, TLC

VARIABLES
    event,                      \* the invocation payload
    environ,                    \* os.environ, as far as the handler reads it
    fleet,                      \* what the account's inventory lists
    metrics,                    \* what the monitoring API holds for each instance
    pc,                         \* the handler's position
    recipients,
    instances,                  \* instances["DBInstances"]
    idx,                        \* position of the for loop in instances
    free_storage_response,      \* ["Datapoints"] of the response
    freeable_memory_response,
    results,
    df,
    csv_data,
    formatted_df,
    styles,                     \* what highlight_storage_percent returned per row
    msg_to,                     \* msg["To"]
    calls,                      \* the API calls issued so far, in order
    sent,                       \* the arguments send_raw_email was given
    email_sent,
    response,                   \* what lambda_handler returned
    exc                         \* the exception raised, and the step that raised it

vars == <<event, environ, fleet, metrics, pc, recipients, instances, idx,
          free_storage_response, freeable_memory_response, results, df,
          csv_data, formatted_df, styles, msg_to, calls, sent, email_sent,
          response, exc>>

envVars == <<event, environ, fleet, metrics>>

---------------------------------------------------------------------------
(* Bounds of the model. *)

MaxInstances == 2
MaxSamples == 2
MaxEnvLen == 2
MaxRecipients == 1

(* Constants of the program. *)

MiBPerGB == 1024
RedBelow == 15
OrangeBelow == 20

---------------------------------------------------------------------------
(* Helpers on sequences. *)

SeqsUpTo(S, n) == UNION {[1..k -> S] : k \in 0..n}

---------------------------------------------------------------------------
(* Text. *)

Comma == ","

DEFAULT_RECIPIENTS ==
    <<"s","a","a","s","a","d","m","i","n","@",
      "r","e","a","d","y","w","i","r","e",".","c","o","m">>

RECURSIVE split(_, _)
(* str.split(sep): the pieces between the separators, empty pieces kept. *)
split(s, sep) ==
    IF \A i \in 1..Len(s) : s[i] # sep
    THEN <<s>>
    ELSE LET i == CHOOSE k \in 1..Len(s) :
                      s[k] = sep /\ \A j \in 1..(k - 1) : s[j] # sep
         IN  <<SubSeq(s, 1, i - 1)>> \o split(SubSeq(s, i + 1, Len(s)), sep)

RECURSIVE join(_, _)
(* sep.join(parts), sep given as a text. *)
join(sep, parts) ==
    IF parts = <<>> THEN <<>>
    ELSE IF Len(parts) = 1 THEN parts[1]
    ELSE parts[1] \o sep \o join(sep, Tail(parts))

---------------------------------------------------------------------------
(* Numbers. *)

(* round(num / den, 0) for num >= 0, den > 0, as Python rounds an exactly  *)
(* represented value: to the nearest integer, a tie to the even one.       *)
RoundHalfEven(num, den) ==
    LET q == num \div den
        r == num % den
    IN  IF 2 * r < den THEN q
        ELSE IF 2 * r > den THEN q + 1
        ELSE IF q % 2 = 0 THEN q ELSE q + 1

(* round(average / (1024 * 1024 * 1024), 2), in hundredths of a GB.  The   *)
(* division by a power of two is exact, so a tie is a real tie.            *)
to_gb(average) == RoundHalfEven(average * 100, MiBPerGB)

(* max(datapoints, key=lambda x: x["Timestamp"]): the first of the points  *)
(* with the greatest key, found in one pass from the left.                 *)
RECURSIVE max_from(_, _, _)
max_from(datapoints, i, best) ==
    IF i > Len(datapoints) THEN best
    ELSE max_from(datapoints, i + 1,
                  IF datapoints[i].Timestamp > best.Timestamp
                  THEN datapoints[i] ELSE best)

(* A variant that takes the last point returned. *)
latest_point_last(datapoints) == datapoints[Len(datapoints)]

latest_point(datapoints) == max_from(datapoints, 2, datapoints[1])

(* free_storage_gb / freeable_memory_gb: 0, or the latest point converted. *)
latest_gb(datapoints) ==
    IF datapoints # <<>> THEN to_gb(latest_point(datapoints).Average) ELSE 0

(* round((free_storage_gb / allocated_storage_gb) * 100, 2), in hundredths *)
(* of a percent.  The operands are binary floats: where the exact quotient *)
(* lies midway between two hundredths the float error decides, and either  *)
(* neighbour may come out.                                                 *)
free_storage_percent(free_storage_gb, allocated_storage_gb) ==
    IF allocated_storage_gb > 0
    THEN LET num == free_storage_gb * 100
             q == num \div allocated_storage_gb
             r == num % allocated_storage_gb
         IN  IF 2 * r < allocated_storage_gb THEN {q}
             ELSE IF 2 * r > allocated_storage_gb THEN {q + 1}
             ELSE {q, q + 1}
    ELSE {0}

---------------------------------------------------------------------------
(* The report's rows. *)

Row(instance, free_storage_gb, percent, freeable_memory_gb) ==
    [Name |-> instance.DBInstanceIdentifier,
     State |-> instance.DBInstanceStatus,
     AllocatedGB |-> instance.AllocatedStorage,
     FreeStorageGB |-> free_storage_gb,
     FreeStoragePercent |-> percent,
     FreeableMemoryGB |-> freeable_memory_gb]

(* f"{x:.2f}" of a number of hundredths: the digits before and after the   *)
(* point.                                                                  *)
format2f(hundredths) == [whole |-> hundredths \div 100, frac |-> hundredths % 100]

(* float(text) of such a text, in hundredths. *)
float(text) == text.whole * 100 + text.frac

(* formatted_df: the four numeric columns as display texts. *)
format_row(row) ==
    [Name |-> row.Name,
     State |-> row.State,
     AllocatedGB |-> format2f(row.AllocatedGB * 100),
     FreeStorageGB |-> format2f(row.FreeStorageGB),
     FreeStoragePercent |-> format2f(row.FreeStoragePercent),
     FreeableMemoryGB |-> format2f(row.FreeableMemoryGB)]

NoStyle == ""
Red == "background-color: red"
Orange == "background-color: orange"

(* A variant whose first bound is inclusive. *)
highlight_storage_percent_le(row) ==
    LET free_percent == float(row.FreeStoragePercent)
    IN  IF free_percent <= RedBelow * 100
        THEN <<NoStyle, NoStyle, NoStyle, NoStyle, Red, NoStyle>>
        ELSE IF free_percent < OrangeBelow * 100
        THEN <<NoStyle, NoStyle, NoStyle, NoStyle, Orange, NoStyle>>
        ELSE <<NoStyle, NoStyle, NoStyle, NoStyle, NoStyle, NoStyle>>

(* The style of each of the six cells of a row, in column order. *)
highlight_storage_percent(row) ==
    LET free_percent == float(row.FreeStoragePercent)
    IN  IF free_percent < RedBelow * 100
        THEN <<NoStyle, NoStyle, NoStyle, NoStyle, Red, NoStyle>>
        ELSE IF free_percent < OrangeBelow * 100
        THEN <<NoStyle, NoStyle, NoStyle, NoStyle, Orange, NoStyle>>
        ELSE <<NoStyle, NoStyle, NoStyle, NoStyle, NoStyle, NoStyle>>

Columns ==
    <<"RDS Instance Name", "Instance State", "Allocated Space (GB)",
      "Free Storage Space (GB)", "Free Storage Space (%)", "Freeable Memory (GB)">>

(* df.to_csv(index=False): the header, then one line of raw values per row. *)
to_csv(frame) ==
    <<Columns>> \o
    [i \in 1..Len(frame) |->
        <<frame[i].Name, frame[i].State, frame[i].AllocatedGB,
          frame[i].FreeStorageGB, frame[i].FreeStoragePercent,
          frame[i].FreeableMemoryGB>>]

---------------------------------------------------------------------------
(* The surroundings of one invocation. *)

InstancePool ==
    {[DBInstanceIdentifier |-> "db-1", AllocatedStorage |-> 100,
      DBInstanceStatus |-> "available"],
     [DBInstanceIdentifier |-> "db-2", AllocatedStorage |-> 40,
      DBInstanceStatus |-> "stopped"],
     [DBInstanceIdentifier |-> "db-3", AllocatedStorage |-> 0,
      DBInstanceStatus |-> "creating"]}

(* Inventory listings: instance identifiers are unique in an account. *)
Fleets(n) ==
    {f \in SeqsUpTo(InstancePool, n) :
        \A i, j \in 1..Len(f) :
            i # j => f[i].DBInstanceIdentifier # f[j].DBInstanceIdentifier}

Ids(f) == {f[i].DBInstanceIdentifier : i \in 1..Len(f)}

(* Averages in MiB: 128 is 0.125 GB and 384 is 0.375 GB (both ties of the  *)
(* rounding), 12288 is 12 GB, 15350 rounds to 14.99 GB, 15360 is 15 GB and *)
(* 20480 is 20 GB.                                                         *)
StorageAverages == {128, 12288, 15350, 15360, 20480}
MemoryAverages == {384}
SeriesAverages == {128, 384}

(* Datapoints of one response: at most n samples, one per period, in any   *)
(* order.                                                                  *)
Series(averages, n) ==
    {s \in SeqsUpTo([Timestamp : 1..n, Average : averages], n) :
        \A i, j \in 1..Len(s) : i # j => s[i].Timestamp # s[j].Timestamp}

None == [isNone |-> TRUE, keys |-> {}, recipients |-> <<>>]

Dict(keys, value) == [isNone |-> FALSE, keys |-> keys, recipients |-> value]

Addresses == {<<"b">>}
OtherKeys == {"dry_run"}
EnvChars == {"a", Comma}

Events ==
    {None}
    \cup {Dict(k, <<>>) : k \in SUBSET OtherKeys}
    \cup {Dict(k \cup {"recipients"}, r) :
            k \in SUBSET OtherKeys, r \in SeqsUpTo(Addresses, MaxRecipients)}

Unset == [isSet |-> FALSE, value |-> <<>>]

Environs == {Unset} \cup {[isSet |-> TRUE, value |-> v] : v \in SeqsUpTo(EnvChars, MaxEnvLen)}

NoException == [at |-> "", message |-> ""]
NoResponse == [statusCode |-> 0, body |-> ""]

ExcMessages == {"Throttling", "AccessDenied"}

InitHandler ==
    /\ pc = "resolve"
    /\ recipients = <<>>
    /\ instances = <<>>
    /\ idx = 0
    /\ free_storage_response = <<>>
    /\ freeable_memory_response = <<>>
    /\ results = <<>>
    /\ df = <<>>
    /\ csv_data = <<>>
    /\ formatted_df = <<>>
    /\ styles = <<>>
    /\ msg_to = <<>>
    /\ calls = <<>>
    /\ sent = <<>>
    /\ email_sent = FALSE
    /\ response = NoResponse
    /\ exc = NoException

InitWith(events, environs, fleets, storage, memory) ==
    /\ event \in events
    /\ environ \in environs
    /\ fleet \in fleets
    /\ metrics \in [Ids(fleet) -> [FreeStorageSpace : storage, FreeableMemory : memory]]
    /\ InitHandler

(* Default payload and environment; fleets of up to MaxInstances; every    *)
(* response holds at most one sample.                                      *)
Init ==
    InitWith({None}, {Unset}, Fleets(MaxInstances),
             Series(StorageAverages, 1), Series(MemoryAverages, 1))

(* One instance at most; responses of up to MaxSamples samples. *)
InitLatest ==
    InitWith({None}, {Unset}, Fleets(1),
             Series(SeriesAverages, MaxSamples), Series(SeriesAverages, MaxSamples))

(* Every payload and environment; one instance at most. *)
InitRecipients ==
    InitWith(Events, Environs, Fleets(1),
             Series({12288}, 1), Series(MemoryAverages, 1))

---------------------------------------------------------------------------
(* lambda_handler. *)

Truthy(payload) == ~payload.isNone /\ payload.keys # {}

environ_get(default) == IF environ.isSet THEN environ.value ELSE default

(* A variant that tests the payload's list for truth, not the key for      *)
(* presence.                                                               *)
resolve_recipients_truthy(payload) ==
    IF Truthy(payload) /\ "recipients" \in payload.keys /\ payload.recipients # <<>>
    THEN payload.recipients
    ELSE split(environ_get(DEFAULT_RECIPIENTS), Comma)

(* Lines 187-193: the environment's list, replaced by the payload's. *)
resolve_recipients(payload) ==
    IF Truthy(payload) /\ "recipients" \in payload.keys
    THEN payload.recipients
    ELSE split(environ_get(DEFAULT_RECIPIENTS), Comma)

(* A variant that leaves the message out of the body. *)
error_response_bare(message) ==
    [statusCode |-> 500, body |-> "Error in lambda_handler"]

error_response(message) ==
    [statusCode |-> 500, body |-> "Error in lambda_handler: " \o message]

empty_response ==
    [statusCode |-> 200, body |-> "No RDS instances found in the account."]

(* A variant that classifies a failed dispatch as a failure. *)
final_response_failure_500(ok) ==
    [statusCode |-> IF ok THEN 200 ELSE 500,
     body |-> "RDS metrics report generated and "
              \o (IF ok THEN "email sent successfully" ELSE "failed to send email")
              \o "."]

final_response(ok) ==
    [statusCode |-> 200,
     body |-> "RDS metrics report generated and "
              \o (IF ok THEN "email sent successfully" ELSE "failed to send email")
              \o "."]

Call(api, metric, id, failed) ==
    [api |-> api, MetricName |-> metric, Id |-> id, raised |-> failed]

(* except Exception as e, lines 217-220. *)
handler_except(step, message) ==
    /\ exc' = [at |-> step, message |-> message]
    /\ response' = error_response(message)
    /\ pc' = "done"

(* A variant of send_except without the except clause: the exception goes *)
(* on to the handler's.                                                    *)
send_except_propagate(step, message) ==
    /\ handler_except(step, message)
    /\ UNCHANGED email_sent

(* except Exception as e in send_report_email, lines 178-180, and the      *)
(* handler's return that follows it, lines 210-215.                        *)
send_except(step, message) ==
    /\ exc' = [at |-> step, message |-> message]
    /\ email_sent' = FALSE
    /\ response' = final_response(FALSE)
    /\ pc' = "done"

ResolveRecipients ==
    /\ pc = "resolve"
    /\ recipients' = resolve_recipients(event)
    /\ pc' = "clients"
    /\ UNCHANGED <<envVars, instances, idx, free_storage_response,
                   freeable_memory_response, results, df, csv_data, formatted_df,
                   styles, msg_to, calls, sent, email_sent, response, exc>>

(* get_rds_metrics_report, lines 27-29. *)
CreateClients ==
    /\ pc = "clients"
    /\ \/ /\ pc' = "describe"
          /\ UNCHANGED <<response, exc>>
       \/ \E m \in ExcMessages : handler_except("clients", m)
    /\ UNCHANGED <<envVars, recipients, instances, idx, free_storage_response,
                   freeable_memory_response, results, df, csv_data, formatted_df,
                   styles, msg_to, calls, sent, email_sent>>

loop_pc(i, listing) == IF i <= Len(listing) THEN "query_fs" ELSE "return"

(* Lines 30-33. *)
DescribeInstances ==
    /\ pc = "describe"
    /\ \/ /\ calls' = Append(calls, Call("describe_db_instances", "", "", FALSE))
          /\ instances' = fleet
          /\ results' = <<>>
          /\ idx' = 1
          /\ pc' = loop_pc(1, fleet)
          /\ UNCHANGED <<response, exc>>
       \/ /\ calls' = Append(calls, Call("describe_db_instances", "", "", TRUE))
          /\ \E m \in ExcMessages : handler_except("describe", m)
          /\ UNCHANGED <<instances, results, idx>>
    /\ UNCHANGED <<envVars, recipients, free_storage_response,
                   freeable_memory_response, df, csv_data, formatted_df,
                   styles, msg_to, sent, email_sent>>

instance_id == instances[idx].DBInstanceIdentifier

(* Lines 34-47. *)
QueryFreeStorage ==
    /\ pc = "query_fs"
    /\ \/ /\ calls' = Append(calls, Call("get_metric_statistics", "FreeStorageSpace",
                                         instance_id, FALSE))
          /\ free_storage_response' = metrics[instance_id].FreeStorageSpace
          /\ pc' = "query_mem"
          /\ UNCHANGED <<response, exc>>
       \/ /\ calls' = Append(calls, Call("get_metric_statistics", "FreeStorageSpace",
                                         instance_id, TRUE))
          /\ \E m \in ExcMessages : handler_except("query_fs", m)
          /\ UNCHANGED free_storage_response
    /\ UNCHANGED <<envVars, recipients, instances, idx, freeable_memory_response,
                   results, df, csv_data, formatted_df, styles, msg_to, sent,
                   email_sent>>

(* A variant that takes a failed query for a response without samples. *)
QueryFreeableMemory_swallow ==
    /\ pc = "query_mem"
    /\ \/ /\ calls' = Append(calls, Call("get_metric_statistics", "FreeableMemory",
                                         instance_id, FALSE))
          /\ freeable_memory_response' = metrics[instance_id].FreeableMemory
       \/ /\ calls' = Append(calls, Call("get_metric_statistics", "FreeableMemory",
                                         instance_id, TRUE))
          /\ freeable_memory_response' = <<>>
    /\ pc' = "extract"
    /\ UNCHANGED <<envVars, recipients, instances, idx, free_storage_response,
                   results, df, csv_data, formatted_df, styles, msg_to, sent,
                   email_sent, response, exc>>

(* Lines 50-60. *)
QueryFreeableMemory ==
    /\ pc = "query_mem"
    /\ \/ /\ calls' = Append(calls, Call("get_metric_statistics", "FreeableMemory",
                                         instance_id, FALSE))
          /\ freeable_memory_response' = metrics[instance_id].FreeableMemory
          /\ pc' = "extract"
          /\ UNCHANGED <<response, exc>>
       \/ /\ calls' = Append(calls, Call("get_metric_statistics", "FreeableMemory",
                                         instance_id, TRUE))
          /\ \E m \in ExcMessages : handler_except("query_mem", m)
          /\ UNCHANGED freeable_memory_response
    /\ UNCHANGED <<envVars, recipients, instances, idx, free_storage_response,
                   results, df, csv_data, formatted_df, styles, msg_to, sent,
                   email_sent>>

(* A variant that takes the percentage from the unrounded average. *)
new_rows_from_bytes(instance, storage, memory) ==
    LET average == IF storage # <<>> THEN latest_point(storage).Average ELSE 0
        percent == IF instance.AllocatedStorage > 0
                   THEN RoundHalfEven(average * 100 * 100,
                                      MiBPerGB * instance.AllocatedStorage)
                   ELSE 0
    IN  {Row(instance, latest_gb(storage), percent, latest_gb(memory))}

(* Lines 62-97: the row of the current instance, appended. *)
new_rows(instance, storage, memory) ==
    LET free_storage_gb == latest_gb(storage)
        freeable_memory_gb == latest_gb(memory)
    IN  {Row(instance, free_storage_gb, percent, freeable_memory_gb) :
            percent \in free_storage_percent(free_storage_gb, instance.AllocatedStorage)}

(* A variant that puts the new row first. *)
ExtractAndPrepend ==
    /\ pc = "extract"
    /\ \E row \in new_rows(instances[idx], free_storage_response,
                           freeable_memory_response) :
            results' = <<row>> \o results
    /\ idx' = idx + 1
    /\ pc' = loop_pc(idx + 1, instances)
    /\ UNCHANGED <<envVars, recipients, instances, free_storage_response,
                   freeable_memory_response, df, csv_data, formatted_df, styles,
                   msg_to, calls, sent, email_sent, response, exc>>

ExtractAndAppend ==
    /\ pc = "extract"
    /\ \E row \in new_rows(instances[idx], free_storage_response,
                           freeable_memory_response) :
            results' = Append(results, row)
    /\ idx' = idx + 1
    /\ pc' = loop_pc(idx + 1, instances)
    /\ UNCHANGED <<envVars, recipients, instances, free_storage_response,
                   freeable_memory_response, df, csv_data, formatted_df, styles,
                   msg_to, calls, sent, email_sent, response, exc>>

(* A variant without the short circuit on an empty report. *)
CheckEmpty_always_render ==
    /\ pc = "return"
    /\ pc' = "render"
    /\ UNCHANGED <<envVars, recipients, instances, idx, free_storage_response,
                   freeable_memory_response, results, df, csv_data, formatted_df,
                   styles, msg_to, calls, sent, email_sent, response, exc>>

(* Line 99 and lines 196-200. *)
CheckEmpty ==
    /\ pc = "return"
    /\ IF results = <<>>
       THEN /\ response' = empty_response
            /\ pc' = "done"
       ELSE /\ pc' = "render"
            /\ UNCHANGED response
    /\ UNCHANGED <<envVars, recipients, instances, idx, free_storage_response,
                   freeable_memory_response, results, df, csv_data, formatted_df,
                   styles, msg_to, calls, sent, email_sent, exc>>

(* Lines 202-207. *)
RenderCsv ==
    /\ pc = "render"
    /\ \/ /\ df' = results
          /\ csv_data' = to_csv(results)
          /\ pc' = "ses_client"
          /\ UNCHANGED <<response, exc>>
       \/ /\ \E m \in ExcMessages : handler_except("render", m)
          /\ UNCHANGED <<df, csv_data>>
    /\ UNCHANGED <<envVars, recipients, instances, idx, free_storage_response,
                   freeable_memory_response, results, formatted_df, styles,
                   msg_to, calls, sent, email_sent>>

---------------------------------------------------------------------------
(* send_report_email, and the return of lambda_handler after it. *)

SENDER == "admin01@readywire.com"

(* Line 106. *)
CreateSesClient ==
    /\ pc = "ses_client"
    /\ \/ /\ pc' = "compose"
          /\ UNCHANGED <<email_sent, response, exc>>
       \/ \E m \in ExcMessages : send_except("ses_client", m)
    /\ UNCHANGED <<envVars, recipients, instances, idx, free_storage_response,
                   freeable_memory_response, results, df, csv_data, formatted_df,
                   styles, msg_to, calls, sent>>

(* Lines 109-114. *)
ComposeMessage ==
    /\ pc = "compose"
    /\ \/ /\ msg_to' = join(<<Comma, " ">>, recipients)
          /\ pc' = "html"
          /\ UNCHANGED <<email_sent, response, exc>>
       \/ /\ \E m \in ExcMessages : send_except("compose", m)
          /\ UNCHANGED msg_to
    /\ UNCHANGED <<envVars, recipients, instances, idx, free_storage_response,
                   freeable_memory_response, results, df, csv_data, formatted_df,
                   styles, calls, sent>>

(* Lines 117-122: a copy of df with the numeric columns formatted. *)
format_frame(frame) == [i \in 1..Len(frame) |-> format_row(frame[i])]

(* Line 135: highlight_storage_percent applied to every row. *)
style_frame(frame) == [i \in 1..Len(frame) |-> highlight_storage_percent(frame[i])]

(* Lines 116-166. *)
RenderHtml ==
    /\ pc = "html"
    /\ \/ /\ formatted_df' = format_frame(df)
          /\ styles' = style_frame(format_frame(df))
          /\ pc' = "submit"
          /\ UNCHANGED <<email_sent, response, exc>>
       \/ /\ \E m \in ExcMessages : send_except("html", m)
          /\ UNCHANGED <<formatted_df, styles>>
    /\ UNCHANGED <<envVars, recipients, instances, idx, free_storage_response,
                   freeable_memory_response, results, df, csv_data, msg_to,
                   calls, sent>>

RawEmail ==
    [Source |-> SENDER, Destinations |-> recipients, To |-> msg_to,
     table |-> formatted_df, cellStyles |-> styles, attachment |-> csv_data]

(* Lines 169-180 and 210-215.  The call raises, or returns a response that *)
(* holds a MessageId, or returns one that holds none: then line 175 raises *)
(* KeyError after the message went out.                                    *)
Submit ==
    /\ pc = "submit"
    /\ \/ /\ calls' = Append(calls, Call("send_raw_email", "", "", FALSE))
          /\ sent' = Append(sent, RawEmail)
          /\ email_sent' = TRUE
          /\ response' = final_response(TRUE)
          /\ pc' = "done"
          /\ UNCHANGED exc
       \/ /\ calls' = Append(calls, Call("send_raw_email", "", "", FALSE))
          /\ sent' = Append(sent, RawEmail)
          /\ send_except("log", "'MessageId'")
       \/ /\ calls' = Append(calls, Call("send_raw_email", "", "", TRUE))
          /\ \E m \in ExcMessages : send_except("submit", m)
          /\ UNCHANGED sent
    /\ UNCHANGED <<envVars, recipients, instances, idx, free_storage_response,
                   freeable_memory_response, results, df, csv_data, formatted_df,
                   styles, msg_to>>

---------------------------------------------------------------------------

Next ==
    \/ ResolveRecipients
    \/ CreateClients
    \/ DescribeInstances
    \/ QueryFreeStorage
    \/ QueryFreeableMemory
    \/ ExtractAndAppend
    \/ CheckEmpty
    \/ RenderCsv
    \/ CreateSesClient
    \/ ComposeMessage
    \/ RenderHtml
    \/ Submit

Spec == Init /\ [][Next]_vars

SpecLatest == InitLatest /\ [][Next]_vars

SpecRecipients == InitRecipients /\ [][Next]_vars

---------------------------------------------------------------------------
(* Vocabulary of the properties. *)

CollectorSteps == {"clients", "describe", "query_fs", "query_mem"}
DispatcherSteps == {"ses_client", "compose", "html", "submit", "log"}

IsSend(c) == c.api = "send_raw_email"

InventoryReturned ==
    /\ calls # <<>>
    /\ calls[1].api = "describe_db_instances"
    /\ ~calls[1].raised

HasRecipientsKey == ~event.isNone /\ "recipients" \in event.keys

EnvDefault == IF environ.isSet THEN environ.value ELSE DEFAULT_RECIPIENTS

(* list is what splitting text at its commas gives: joined by commas it is *)
(* text again, and no piece holds a comma.                                 *)
IsCommaSplitOf(list, text) ==
    /\ list # <<>>
    /\ join(<<Comma>>, list) = text
    /\ \A i \in 1..Len(list) : \A j \in 1..Len(list[i]) : list[i][j] # Comma

Corresponds(row, instance) ==
    /\ row.Name = instance.DBInstanceIdentifier
    /\ row.AllocatedGB = instance.AllocatedStorage
    /\ row.State = instance.DBInstanceStatus

(* value is 0 for no samples, and else the conversion of a sample whose    *)
(* timestamp no other sample exceeds.                                      *)
IsLatestValue(value, datapoints) ==
    IF datapoints = <<>>
    THEN value = 0
    ELSE \E k \in 1..Len(datapoints) :
            /\ \A j \in 1..Len(datapoints) :
                    datapoints[j].Timestamp <= datapoints[k].Timestamp
            /\ value = RoundHalfEven(datapoints[k].Average * 100, 1024)

Abs(x) == IF x < 0 THEN -x ELSE x

CallKey(c) == <<c.api, c.MetricName, c.Id>>

RECURSIVE MetricCalls(_)
MetricCalls(listing) ==
    IF listing = <<>> THEN <<>>
    ELSE <<<<"get_metric_statistics", "FreeStorageSpace", listing[1].DBInstanceIdentifier>>,
           <<"get_metric_statistics", "FreeableMemory", listing[1].DBInstanceIdentifier>>>>
         \o MetricCalls(Tail(listing))

(* The calls of a complete run over listing, in order. *)
ExpectedCalls(listing) ==
    <<<<"describe_db_instances", "", "">>>>
    \o MetricCalls(listing)
    \o (IF listing = <<>> THEN <<>> ELSE <<<<"send_raw_email", "", "">>>>)

---------------------------------------------------------------------------
(* C1: when the inventory call returns an empty list, the handler returns  *)
(* status 200 with the "no instances found" message, and send_raw_email is *)
(* never called in that invocation.                                        *)
C1_EmptyInventoryNoMail ==
    (InventoryReturned /\ instances = <<>>) =>
        /\ \A i \in 1..Len(calls) : ~IsSend(calls[i])
        /\ sent = <<>>
        /\ pc \in {"return", "done"}
        /\ pc = "done" =>
              response = [statusCode |-> 200,
                          body |-> "No RDS instances found in the account."]

C1_Witness ==
    /\ pc = "done"
    /\ InventoryReturned
    /\ instances = <<>>
    /\ response.statusCode = 200

(* C2, as claimed: an exception raised by the inventory call, by a metric  *)
(* query or while building either rendering of the report (CSV or HTML)    *)
(* makes the handler return status 500 with the message in the body.       *)
C2_Original ==
    exc.at \in {"describe", "query_fs", "query_mem", "render", "html"} =>
        /\ pc = "done"
        /\ response.statusCode = 500
        /\ response.body = "Error in lambda_handler: " \o exc.message

(* C2, amended: an exception raised while creating the API clients, by the *)
(* inventory call, by a metric query or while building the DataFrame and   *)
(* the CSV rendering makes the handler return status 500 with the message  *)
(* in the body, and nothing is mailed; an exception raised while building  *)
(* the HTML rendering is caught inside send_report_email, and the handler  *)
(* returns status 200 with "failed to send email".                         *)
C2_EscapingExceptionIs500 ==
    /\ exc.at \in (CollectorSteps \cup {"render"}) =>
          /\ pc = "done"
          /\ response.statusCode = 500
          /\ response.body = "Error in lambda_handler: " \o exc.message
          /\ sent = <<>>
    /\ exc.at = "html" =>
          /\ pc = "done"
          /\ response = [statusCode |-> 200,
                         body |-> "RDS metrics report generated and failed to send email."]

C2_Witness ==
    /\ exc.at = "query_mem"
    /\ exc.message = "Throttling"
    /\ results # <<>>
    /\ response.statusCode = 500

(* C3: when the collector returned a non-empty sequence and no exception   *)
(* escaped to the handler, the handler returns status 200 whether the mail *)
(* went out or not; only the body tells the two apart.                     *)
C3_DispatchOutcomeOnlyInBody ==
    (pc = "done" /\ results # <<>> /\ exc.at \notin (CollectorSteps \cup {"render"})) =>
        /\ response.statusCode = 200
        /\ response.body =
              IF email_sent
              THEN "RDS metrics report generated and email sent successfully."
              ELSE "RDS metrics report generated and failed to send email."

C3_Witness ==
    /\ pc = "done"
    /\ results # <<>>
    /\ exc.at = "submit"
    /\ ~email_sent
    /\ response.statusCode = 200

(* C4: send_report_email never lets an exception out: after an exception   *)
(* in client creation, composition, HTML rendering or submission it has    *)
(* returned False (the handler went on to its status 200 return), and it   *)
(* returns True only after send_raw_email returned without raising.        *)
C4_DispatcherNeverRaises ==
    /\ exc.at \in DispatcherSteps =>
          /\ ~email_sent
          /\ pc = "done"
          /\ response.statusCode = 200
          /\ response.body = "RDS metrics report generated and failed to send email."
    /\ email_sent =>
          /\ calls # <<>>
          /\ IsSend(calls[Len(calls)])
          /\ ~calls[Len(calls)].raised
          /\ Len(sent) = 1

C4_Witness ==
    /\ exc.at = "compose"
    /\ pc = "done"
    /\ ~email_sent
    /\ response.statusCode = 200

(* C5: with a recipients key in the payload the list given to the          *)
(* dispatcher is the payload's list, empty or not, with nothing of the     *)
(* environment in it; with no payload or no such key it is the environment *)
(* default split at its commas.                                            *)
C5_RecipientResolution ==
    pc # "resolve" =>
        /\ IF HasRecipientsKey
           THEN recipients = event.recipients
           ELSE IsCommaSplitOf(recipients, EnvDefault)
        /\ \A k \in 1..Len(sent) : sent[k].Destinations = recipients

C5_Witness ==
    /\ pc = "compose"
    /\ HasRecipientsKey
    /\ event.recipients = <<>>
    /\ environ.isSet
    /\ environ.value = <<"a">>
    /\ recipients = <<>>

C5_WitnessSplit ==
    /\ pc = "compose"
    /\ ~HasRecipientsKey
    /\ environ.value = <<"a", Comma>>
    /\ recipients = <<<<"a">>, <<>>>>

(* The rows so far are those of the first instances of the listing, and   *)
(* the frame, the table and the attachment of the mail hold these rows.    *)
C6_Corresponds ==
    /\ instances \in {<<>>, fleet}
    /\ Len(results) <= Len(instances)
    /\ \A i \in 1..Len(results) : Corresponds(results[i], instances[i])
    /\ pc \in {"return", "render", "ses_client", "compose", "html", "submit"} =>
          Len(results) = Len(instances)
    /\ pc \in {"ses_client", "compose", "html", "submit"} => df = results
    /\ \A k \in 1..Len(sent) :
          /\ Len(sent[k].table) = Len(instances)
          /\ \A i \in 1..Len(instances) :
                /\ sent[k].table[i].Name = instances[i].DBInstanceIdentifier
                /\ sent[k].table[i].State = instances[i].DBInstanceStatus
                /\ sent[k].table[i].AllocatedGB.whole = instances[i].AllocatedStorage
                /\ sent[k].table[i].AllocatedGB.frac = 0
                /\ sent[k].attachment[i + 1][1] = instances[i].DBInstanceIdentifier
                /\ sent[k].attachment[i + 1][3] = instances[i].AllocatedStorage
          /\ Len(sent[k].attachment) = Len(instances) + 1
          /\ df = results

(* A step keeps every row appended so far, and the frame once built. *)
C6_Kept ==
    /\ Len(results') >= Len(results)
    /\ \A i \in 1..Len(results) : results'[i] = results[i]
    /\ df # <<>> => df' = df

(* C6: the rows correspond one to one, in listing order, to the instances  *)
(* the inventory call of this invocation returned, with allocated storage  *)
(* and state copied; the rows handed on to the renderer and to the mail    *)
(* are these rows, and no step changes or removes a row once it is         *)
(* appended.                                                               *)
C6_RowsMatchInventory == []C6_Corresponds /\ [][C6_Kept]_vars

C6_Witness ==
    /\ Len(sent) = 1
    /\ Len(results) = 2
    /\ results[1].Name = "db-2"
    /\ results[2].Name = "db-1"

(* C7: each of the two metric values of a row is derived from a sample of  *)
(* maximal timestamp among those returned for the instance, and is 0 when  *)
(* none was returned; the row is produced in either case.                  *)
C7_LatestSample ==
    /\ \A i \in 1..Len(results) :
          /\ IsLatestValue(results[i].FreeStorageGB,
                           metrics[results[i].Name].FreeStorageSpace)
          /\ IsLatestValue(results[i].FreeableMemoryGB,
                           metrics[results[i].Name].FreeableMemory)
    /\ pc = "return" => Len(results) = Len(fleet)

C7_Witness ==
    /\ Len(results) = 1
    /\ metrics[results[1].Name].FreeStorageSpace =
          <<[Timestamp |-> 2, Average |-> 128], [Timestamp |-> 1, Average |-> 384]>>
    /\ metrics[results[1].Name].FreeableMemory = <<>>
    /\ results[1].FreeStorageGB = 12
    /\ results[1].FreeableMemoryGB = 0

(* C8: in every row only the cell of "Free Storage Space (%)" is styled:   *)
(* red below 15, orange from 15 to below 20, nothing from 20 on.           *)
C8_Highlighting ==
    /\ Columns[5] = "Free Storage Space (%)"
    /\ Len(styles) \in {0, Len(df)}
    /\ \A i \in 1..Len(styles) :
          LET percent == df[i].FreeStoragePercent
          IN  /\ Len(styles[i]) = 6
              /\ \A c \in {1, 2, 3, 4, 6} : styles[i][c] = ""
              /\ percent < 1500 => styles[i][5] = "background-color: red"
              /\ (1500 <= percent /\ percent < 2000) =>
                    styles[i][5] = "background-color: orange"
              /\ percent >= 2000 => styles[i][5] = ""
    /\ \A k \in 1..Len(sent) : sent[k].cellStyles = styles

C8_Witness ==
    /\ Len(styles) = 2
    /\ df[1].FreeStoragePercent = 1500
    /\ styles[1][5] = "background-color: orange"
    /\ df[2].FreeStoragePercent > 2000
    /\ styles[2][5] = ""

C8_WitnessRed ==
    /\ Len(styles) = 1
    /\ df[1].FreeStoragePercent = 1499
    /\ styles[1][5] = "background-color: red"

C8_WitnessTwenty ==
    /\ Len(styles) = 1
    /\ df[1].FreeStoragePercent = 2000
    /\ styles[1][5] = ""

(* C9: the percentage of a row is 0 when allocated storage is 0, and else  *)
(* the row's rounded free storage over allocated storage, times 100, to    *)
(* the nearest hundredth; 12 GB free of 100 GB gives 12.00.                *)
C9_PercentDerivation ==
    \A i \in 1..Len(results) :
          LET row == results[i]
          IN  /\ row.AllocatedGB = 0 => row.FreeStoragePercent = 0
              /\ row.AllocatedGB > 0 =>
                    2 * Abs(row.FreeStoragePercent * row.AllocatedGB
                            - 100 * row.FreeStorageGB) <= row.AllocatedGB
              /\ (row.AllocatedGB = 100 /\ row.FreeStorageGB = 1200) =>
                    row.FreeStoragePercent = 1200

C9_Witness ==
    /\ Len(styles) = 2
    /\ results[1].AllocatedGB = 0
    /\ results[1].FreeStorageGB = 1200
    /\ results[1].FreeStoragePercent = 0
    /\ results[2].AllocatedGB = 100
    /\ results[2].FreeStorageGB = 1200
    /\ results[2].FreeStoragePercent = 1200
    /\ styles[2][5] = "background-color: red"

(* C10: the calls of an invocation are an initial part of: the inventory   *)
(* call, then for each listed instance in order its free storage query and *)
(* its freeable memory query, then one send_raw_email; a call that raised  *)
(* is the last call of the invocation; the inventory call is made unless   *)
(* creating the API clients failed.                                        *)
C10_CallOrder ==
    /\ Len(calls) <= Len(ExpectedCalls(fleet))
    /\ \A i \in 1..Len(calls) : CallKey(calls[i]) = ExpectedCalls(fleet)[i]
    /\ \A i \in 1..Len(calls) : calls[i].raised => (i = Len(calls) /\ pc = "done")
    /\ Len(sent) <= 1
    /\ pc \in {"render", "ses_client", "compose", "html", "submit"} =>
          Len(calls) = 1 + 2 * Len(fleet)
    /\ (pc \notin {"resolve", "clients", "describe"} /\ exc.at # "clients") =>
          (calls # <<>> /\ calls[1].api = "describe_db_instances")

C10_Witness ==
    /\ Len(fleet) = 2
    /\ Len(calls) = 6
    /\ IsSend(calls[6])
    /\ ~calls[6].raised

C10_WitnessRaise ==
    /\ Len(fleet) = 2
    /\ Len(calls) = 3
    /\ calls[3].raised
    /\ pc = "done"

====
